---- MODULE Spec2Model ----
(***************************************************************************)
(* Model of anomaly_backend/ml_model.py: build_features_21 (alignment of   *)
(* pump telemetry, flow-meter and sensor readings on a one-minute grid,    *)
(* rolling features, fill policy) and detect_anomalies (per-pump model     *)
(* dispatch, anomaly filter, ordering, severity quantiles, payload).       *)
(*                                                                         *)
(* Numbers are exact rationals <<n, d>> (d > 0, lowest terms); a missing   *)
(* value (NaN / NULL) is the empty tuple.  A rolling standard deviation is *)
(* represented by its square (the sample variance), which is zero, missing *)
(* or equal exactly when the standard deviation is.  Timestamps are whole  *)
(* numbers of ticks, TicksPerMinute ticks to the minute.                   *)
(***************************************************************************)
EXTENDS Integers, Sequences, FiniteSets, TLC

VARIABLES
    pump_in,        \* PumpLogs rows returned by fetch_recent_data
    sensor_in,      \* SensorLogs rows returned by fetch_recent_data
    flow_in,        \* FlowMeterLogs rows returned by fetch_recent_data
    MODEL_BY_PUMP,  \* bundle["models"]: the pump ids that have a model pack
    FEATURE_COLS,   \* bundle["features"]: the feature names of the bundle
    pc,             \* position in detect_anomalies
    pump_df,        \* build_features_21's pump_df once the gaps are filled
    df,             \* the feature table returned by build_features_21
    todo,           \* pump groups of df.groupby not yet visited, ascending
    all_rows,       \* scored rows accumulated so far (concat of all_rows)
    bound,          \* TRUE once the locals merged and anomalies are assigned
    merged,         \* detect_anomalies' local `merged` (meaningful once bound)
    anomalies,      \* detect_anomalies' local `anomalies` (meaningful once bound)
    outcome,        \* "none" | "returned" | "raised"
    results,        \* the list returned by the current invocation
    run,            \* number of the current invocation
    history,        \* results of the completed invocations
    reason_row,     \* build_reason's argument `row`
    reason_baseline,\* build_reason's closure variable cond_baseline
    reason_ret,     \* what build_reason returned (<<>> before it returns)
    legacy_in,      \* earlier version: rows returned by fetch_pump_logs
    legacy_pc,      \* earlier version: position in detect_anomalies
    legacy_df,      \* earlier version: df with flag, score and severity
    legacy_records  \* earlier version: the list detect_anomalies returns

reason_vars == <<reason_row, reason_baseline, reason_ret>>

legacy_vars == <<legacy_in, legacy_pc, legacy_df, legacy_records>>

vars == <<pump_in, sensor_in, flow_in, MODEL_BY_PUMP, FEATURE_COLS, pc,
          pump_df, df, todo, all_rows, bound, merged, anomalies, outcome,
          results, run, history, reason_vars, legacy_vars>>

-----------------------------------------------------------------------------
(* Bounds of the model                                                     *)

MaxTel == 3          \* telemetry rows in the feature-engineering inputs
MaxRows == 5         \* telemetry rows in the scoring inputs
MaxPlain == 2        \* telemetry rows in the inputs of repeated invocations
MaxAux == 2          \* flow-meter and sensor readings per input, together
MaxTick == 2         \* largest timestamp of the feature-engineering inputs
TicksPerMinute == 2  \* resolution of the timestamps under the minute
MaxRuns == 2         \* invocations of detect_anomalies on the same window
MaxLegacy == 4       \* rows in the scoring inputs of the earlier version
MaxPop == 3          \* rows in its explanation inputs

-----------------------------------------------------------------------------
(* Configuration tables of ml_model.py                                     *)

ALLOWED_PUMPS == {47366, 47367, 46962, 48142}

FLOWMETER_TO_PUMP ==
    (4685 :> 46962) @@ (5077 :> 47366) @@ (5081 :> 47367) @@ (5950 :> 48142)

SENSOR_TO_FEATURE ==
    (31487 :> "Pressure(psi)_31487") @@ (31488 :> "Flowrate(gal/min)_31488") @@
    (31489 :> "Conductivity_31489") @@ (31538 :> "Flowrate(gal/min)_31538") @@
    (40353 :> "Flowrate(gal/min)_40353") @@ (40355 :> "Frequency(Hz)_40355") @@
    (42648 :> "Pressure(psi)_42648")

\* site_map1 restricted to the sensors that the sensor query selects
site_map1 ==
    (31487 :> 47366) @@ (31488 :> 47366) @@ (31489 :> 47366) @@
    (31538 :> 47367) @@ (40353 :> 48142) @@ (40355 :> 48142) @@
    (42648 :> 48142)

LongWindow == 120
LongMinPeriods == 30
ShortWindow == 5
ShortMinPeriods == 1

-----------------------------------------------------------------------------
(* Exact arithmetic with missing values                                    *)

NaN == <<>>

IsNaN(x) == x = NaN

Abs(n) == IF n < 0 THEN -n ELSE n

RECURSIVE GCD(_, _)
GCD(a, b) == IF b = 0 THEN a ELSE GCD(b, a % b)

Rat(n, d) ==
    LET s == IF d < 0 THEN -1 ELSE 1
        g == GCD(Abs(n), Abs(d))
    IN  <<(s * n) \div g, (s * d) \div g>>

Num(v) == Rat(v, 1)

Zero == Num(0)

RAdd(a, b) == Rat(a[1] * b[2] + b[1] * a[2], a[2] * b[2])
RSub(a, b) == Rat(a[1] * b[2] - b[1] * a[2], a[2] * b[2])
RMul(a, b) == Rat(a[1] * b[1], a[2] * b[2])
RDiv(a, b) == Rat(a[1] * b[2], a[2] * b[1])
RLe(a, b) == a[1] * b[2] <= b[1] * a[2]
RLt(a, b) == a[1] * b[2] < b[1] * a[2]

\* arithmetic of pandas columns: a missing operand gives a missing result
NSub(a, b) == IF IsNaN(a) \/ IsNaN(b) THEN NaN ELSE RSub(a, b)
NDiv(a, b) == IF IsNaN(a) \/ IsNaN(b) THEN NaN ELSE RDiv(a, b)

\* Series.fillna(v)
fillna(x, v) == IF IsNaN(x) THEN v ELSE x

-----------------------------------------------------------------------------
(* Data-frame helpers.  A table is a sequence of rows; a row is a function *)
(* from the names of the columns the table has to their values.            *)

SetMax(S) == CHOOSE x \in S : \A y \in S : y <= x
SetMin(S) == CHOOSE x \in S : \A y \in S : x <= y

\* DataFrame.sort_values on several keys (a stable lexsort): rows that
\* neither key orders keep their relative order
StableSort(s, Before(_, _)) ==
    LET n == Len(s)
        pos(i) == 1 + Cardinality({j \in 1..n :
                        \/ Before(s[j], s[i])
                        \/ (~Before(s[i], s[j]) /\ j < i)})
    IN  [k \in 1..n |-> s[CHOOSE i \in 1..n : pos(i) = k]]

\* dt.floor("T")
floorT(t) == (t \div TicksPerMinute) * TicksPerMinute

\* the columns that hold the identity of a row and are never missing
KeyCols == {"SitePumpID", "PumpLogDate", "ts_minute", "model_out"}

\* DataFrame.ffill(): every missing cell takes the last valid value above
\* it in the same column, whatever pump the row above belongs to
ffill(rows) ==
    [i \in 1..Len(rows) |->
        [c \in DOMAIN rows[i] |->
            IF c \in KeyCols THEN rows[i][c]
            ELSE LET S == {j \in 1..i : ~IsNaN(rows[j][c])}
                 IN  IF S = {} THEN NaN ELSE rows[SetMax(S)][c]]]

\* DataFrame.bfill(): every missing cell takes the next valid value below
bfill(rows) ==
    [i \in 1..Len(rows) |->
        [c \in DOMAIN rows[i] |->
            IF c \in KeyCols THEN rows[i][c]
            ELSE LET S == {j \in i..Len(rows) : ~IsNaN(rows[j][c])}
                 IN  IF S = {} THEN NaN ELSE rows[SetMin(S)][c]]]

\* DataFrame.fillna(0)
fillna0(rows) ==
    [i \in 1..Len(rows) |->
        [c \in DOMAIN rows[i] |->
            IF c \in KeyCols THEN rows[i][c] ELSE fillna(rows[i][c], Zero)]]

\* sum and sum of squares of column c over the rows whose index is in S
RECURSIVE SumCol(_, _, _)
SumCol(rows, c, S) ==
    IF S = {} THEN Zero
    ELSE LET j == CHOOSE k \in S : TRUE
         IN  RAdd(rows[j][c], SumCol(rows, c, S \ {j}))

RECURSIVE SumSqCol(_, _, _)
SumSqCol(rows, c, S) ==
    IF S = {} THEN Zero
    ELSE LET j == CHOOSE k \in S : TRUE
         IN  RAdd(RMul(rows[j][c], rows[j][c]), SumSqCol(rows, c, S \ {j}))

\* mean of the valid values of column c over the rows in S (NaN if none)
MeanCol(rows, c, S) ==
    LET O == {j \in S : ~IsNaN(rows[j][c])}
    IN  IF O = {} THEN NaN
        ELSE RDiv(SumCol(rows, c, O), Num(Cardinality(O)))

\* the trailing window of row i inside its own pump group: the last
\* `window` rows of the same pump up to and including row i
Window(rows, i, window) ==
    LET P == {j \in 1..i : rows[j].SitePumpID = rows[i].SitePumpID}
    IN  {j \in P : Cardinality({k \in P : k > j}) < window}

\* g[c].transform(lambda s: s.rolling(window, min_periods).mean()) at row i
rolling_mean(rows, c, i, window, min_periods) ==
    LET O == {j \in Window(rows, i, window) : ~IsNaN(rows[j][c])}
    IN  IF Cardinality(O) < min_periods THEN NaN
        ELSE RDiv(SumCol(rows, c, O), Num(Cardinality(O)))

\* s.rolling(window, min_periods).std() at row i (ddof = 1), squared
rolling_std(rows, c, i, window, min_periods) ==
    LET O == {j \in Window(rows, i, window) : ~IsNaN(rows[j][c])}
        n == Cardinality(O)
        sm == SumCol(rows, c, O)
    IN  IF n < min_periods \/ n < 2 THEN NaN
        ELSE RDiv(RSub(SumSqCol(rows, c, O), RDiv(RMul(sm, sm), Num(n))),
                  Num(n - 1))

\* a short-window standard deviation left undefined on short windows
roll_std_5_nofill(rows, c, i) ==
    rolling_std(rows, c, i, ShortWindow, ShortMinPeriods)

\* the short-window standard deviation column: rolling(...).std().fillna(0)
roll_std_5(rows, c, i) ==
    fillna(rolling_std(rows, c, i, ShortWindow, ShortMinPeriods), Zero)

\* Series.replace(0, pd.NA)
replace0(b) == IF b = Zero THEN NaN ELSE b

-----------------------------------------------------------------------------
(* build_features_21                                                       *)

\* sort_values(["SitePumpID", "PumpLogDate"])
PumpBefore(a, b) ==
    \/ a.SitePumpID < b.SitePumpID
    \/ (a.SitePumpID = b.SitePumpID /\ a.PumpLogDate < b.PumpLogDate)

\* ----- Pump side: sort by pump and time, floor the time to the minute
pump_side(pump_rows) ==
    LET s == StableSort(pump_rows, PumpBefore)
    IN  [i \in 1..Len(s) |-> s[i] @@ [ts_minute |-> floorT(s[i].PumpLogDate)]]

\* ----- FlowMeterLogs -> FlowRate: the mean flow rate of every
\* (SitePumpID, ts_minute) that has a reading of an allowed pump
flow_summary(flow_df) ==
    LET pump(i) == IF flow_df[i].FlowMeterID \in DOMAIN FLOWMETER_TO_PUMP
                   THEN FLOWMETER_TO_PUMP[flow_df[i].FlowMeterID] ELSE 0
        kept == {i \in 1..Len(flow_df) : pump(i) \in ALLOWED_PUMPS}
        key(i) == <<pump(i), floorT(flow_df[i].LogStartTime)>>
    IN  [k \in {key(i) : i \in kept} |->
            MeanCol(flow_df, "FlowRate", {i \in kept : key(i) = k})]

\* pump_df.merge(flow_summary, how="left", on=["SitePumpID", "ts_minute"])
merge_flow(rows, summary) ==
    [i \in 1..Len(rows) |->
        LET k == <<rows[i].SitePumpID, rows[i].ts_minute>>
        IN  rows[i] @@ [FlowRate |-> IF k \in DOMAIN summary THEN summary[k]
                                     ELSE NaN]]

\* Fill gaps: ffill, bfill, then a missing flow rate becomes 0
fill_gaps(rows) ==
    LET f == bfill(ffill(rows))
    IN  [i \in 1..Len(f) |-> [f[i] EXCEPT !.FlowRate = fillna(@, Zero)]]

\* baselines, deviations and short rolling statistics, per pump group
rolling_features(rows) ==
    [i \in 1..Len(rows) |->
        LET baseline_pressure ==
                rolling_mean(rows, "Pressure", i, LongWindow, LongMinPeriods)
            baseline_current ==
                rolling_mean(rows, "OutputCurrent", i, LongWindow, LongMinPeriods)
            pressure_dev == NSub(rows[i].Pressure, baseline_pressure)
            current_dev == NSub(rows[i].OutputCurrent, baseline_current)
        IN  rows[i] @@
            [pressure_dev |-> pressure_dev,
             current_dev |-> current_dev,
             pressure_dev_pct |-> NDiv(pressure_dev, replace0(baseline_pressure)),
             current_dev_pct |-> NDiv(current_dev, replace0(baseline_current)),
             Pressure_roll_mean_5 |->
                rolling_mean(rows, "Pressure", i, ShortWindow, ShortMinPeriods),
             Pressure_roll_std_5 |-> roll_std_5(rows, "Pressure", i),
             OutputCurrent_roll_mean_5 |->
                rolling_mean(rows, "OutputCurrent", i, ShortWindow, ShortMinPeriods),
             OutputCurrent_roll_std_5 |-> roll_std_5(rows, "OutputCurrent", i),
             FlowRate_roll_mean_5 |->
                rolling_mean(rows, "FlowRate", i, ShortWindow, ShortMinPeriods),
             FlowRate_roll_std_5 |-> roll_std_5(rows, "FlowRate", i)]]

\* an aggregation that keeps the last reading of the bucket
pivot_aggfunc_last(sensor_df, S) == sensor_df[SetMax(S)].Value

\* aggfunc="mean": the value of a pivot cell from the readings in S
pivot_aggfunc(sensor_df, S) == MeanCol(sensor_df, "Value", S)

\* ----- Sensor side: pivot_table(index=[SitePumpID, ts_minute],
\* columns=SensorID, values=Value, aggfunc="mean") of the readings of
\* allowed pumps, columns renamed by SENSOR_TO_FEATURE
sensor_pivot(sensor_df) ==
    LET pump(i) == IF sensor_df[i].SensorID \in DOMAIN site_map1
                   THEN site_map1[sensor_df[i].SensorID] ELSE 0
        kept == {i \in 1..Len(sensor_df) :
                    /\ pump(i) \in ALLOWED_PUMPS
                    /\ ~IsNaN(sensor_df[i].Value)}
        key(i) == <<pump(i), floorT(sensor_df[i].LogDateTimeFixed)>>
        sids == {sensor_df[i].SensorID : i \in kept}
    IN  [keys |-> {key(i) : i \in kept},
         columns |-> {SENSOR_TO_FEATURE[sid] : sid \in sids},
         cell |-> [k \in {key(i) : i \in kept} |->
                    [sid \in sids |->
                        pivot_aggfunc(sensor_df,
                            {i \in kept : /\ key(i) = k
                                          /\ sensor_df[i].SensorID = sid})]],
         sensor |-> [c \in {SENSOR_TO_FEATURE[sid] : sid \in sids} |->
                        CHOOSE sid \in sids : SENSOR_TO_FEATURE[sid] = c]]

\* pump_df.merge(sensor_pivot, how="left", on=["SitePumpID", "ts_minute"])
merge_sensor(rows, pivot) ==
    [i \in 1..Len(rows) |->
        LET k == <<rows[i].SitePumpID, rows[i].ts_minute>>
        IN  rows[i] @@
            [c \in pivot.columns |->
                IF k \in pivot.keys THEN pivot.cell[k][pivot.sensor[c]] ELSE NaN]]

\* make sure all training features exist: a feature of the bundle that the
\* merged table lacks becomes a column of zeros
ensure_features(rows, feature_cols) ==
    [i \in 1..Len(rows) |->
        rows[i] @@ [c \in feature_cols \ DOMAIN rows[i] |-> Zero]]

\* pump_df as it stands when the rolling features are computed (line 153)
aligned_pump_df(pump_rows, flow_df) ==
    fill_gaps(merge_flow(pump_side(pump_rows), flow_summary(flow_df)))

\* lines 155-223: rolling features, sensor side, missing features, fill
features_of(filled, sensor_df, feature_cols) ==
    LET p4 == rolling_features(filled)
        m1 == merge_sensor(p4, sensor_pivot(sensor_df))
        m2 == ensure_features(m1, feature_cols)
    IN  fillna0(bfill(ffill(m2)))

build_features_21(pump_rows, sensor_df, flow_df, feature_cols) ==
    features_of(aligned_pump_df(pump_rows, flow_df), sensor_df, feature_cols)

-----------------------------------------------------------------------------
(* detect_anomalies: the pieces of the loop body and of the payload        *)

\* The model pack of a pump is opaque: each telemetry row carries, in
\* model_out = <<label, score>>, what the pump's scaler and model answer on
\* the feature vector of that row (1 normal, -1 anomaly; lower score = more
\* anomalous).
predict(row) == row.model_out[1]
decision_function(row) == Num(row.model_out[2])

\* a dispatcher that falls back on some pack for a pump without one
has_model_pack_any(models, pump_id) == TRUE

\* MODEL_BY_PUMP.get(int(pump_id)) is not None
has_model_pack(models, pump_id) == pump_id \in models

\* X = group[FEATURE_COLS]: the feature vector handed to the scaler
X(row, feature_cols) == [c \in feature_cols |-> row[c]]

\* df.groupby("SitePumpID"): the group keys in ascending order
group_keys(rows) ==
    LET ids == {rows[i].SitePumpID : i \in 1..Len(rows)}
        n == Cardinality(ids)
    IN  [k \in 1..n |-> CHOOSE p \in ids : Cardinality({q \in ids : q < p}) = k - 1]

\* g2: the rows of one pump with the columns pred and anom_score
score_group(rows, pump_id) ==
    LET IsOfPump(r) == r.SitePumpID = pump_id
        group == SelectSeq(rows, IsOfPump)
    IN  [i \in 1..Len(group) |->
            group[i] @@ [pred |-> predict(group[i]),
                         anom_score |-> decision_function(group[i])]]

\* a filter that takes the label 1 for the anomalous one
IsAnomaly_inverted(r) == r.pred = 1

\* merged[merged["pred"] == -1]
IsAnomaly(r) == r.pred = -1

keep_anomalies(rows) == SelectSeq(rows, IsAnomaly)

\* a sort on the timestamp alone
AnomalyBefore_time_only(a, b) == a.PumpLogDate > b.PumpLogDate

\* sort_values(["PumpLogDate", "anom_score"], ascending=[False, True])
AnomalyBefore(a, b) ==
    \/ a.PumpLogDate > b.PumpLogDate
    \/ (a.PumpLogDate = b.PumpLogDate /\ RLt(a.anom_score, b.anom_score))

sort_anomalies(rows) == StableSort(rows, AnomalyBefore)

QLow == 10
QMed == 25

\* Series.quantile(pct / 100), linear interpolation between order statistics
quantile(values, pct) ==
    LET s == StableSort(values, RLt)
        h == (Len(s) - 1) * pct
        lo == h \div 100
        fr == h % 100
    IN  IF fr = 0 THEN s[lo + 1]
        ELSE RAdd(s[lo + 1], RMul(Rat(fr, 100), RSub(s[lo + 2], s[lo + 1])))

map_severity(s, q_low, q_med) ==
    IF RLe(s, q_low) THEN "HIGH"
    ELSE IF RLe(s, q_med) THEN "MEDIUM"
    ELSE "LOW"

\* the population-based policy: the scores of all scored rows
severity_population_all(all_scored, anoms) ==
    [i \in 1..Len(all_scored) |-> all_scored[i].anom_score]

\* the scores over which the severity quantiles are taken: anomalies only
severity_population(all_scored, anoms) ==
    [i \in 1..Len(anoms) |-> anoms[i].anom_score]

\* lines 266-284: sort the anomalies and give each its severity
rank_anomalies(all_scored, anoms) ==
    LET sorted == sort_anomalies(anoms)
        pop == severity_population(all_scored, sorted)
        q_low == quantile(pop, QLow)
        q_med == quantile(pop, QMed)
    IN  [i \in 1..Len(sorted) |->
            sorted[i] @@
            [severity |-> map_severity(sorted[i].anom_score, q_low, q_med)]]

\* Series.median()
median(values) ==
    LET s == StableSort(values, RLt)
        n == Len(s)
    IN  IF n = 0 THEN NaN
        ELSE IF n % 2 = 1 THEN s[(n + 1) \div 2]
        ELSE RDiv(RAdd(s[n \div 2], s[n \div 2 + 1]), Num(2))

\* cond_baseline: the median conductivity of the scored rows, None when
\* the table has no conductivity column
cond_baseline(rows) ==
    IF Len(rows) > 0 /\ "Conductivity_31489" \in DOMAIN rows[1]
    THEN <<median([i \in 1..Len(rows) |-> rows[i]["Conductivity_31489"]])>>
    ELSE <<>>

FallbackReason ==
    "Model flagged this point as anomalous based on combined sensor patterns."

\* a synthesizer that stops at the first condition that fires
build_reason_first_only(row, baseline) ==
    LET pdp == row.pressure_dev_pct
        cdp == row.current_dev_pct
    IN  IF ~IsNaN(pdp) /\ RLt(Rat(35, 100), pdp)
        THEN <<"Pressure significantly higher than typical baseline.">>
        ELSE IF ~IsNaN(pdp) /\ RLt(pdp, Rat(-35, 100))
        THEN <<"Pressure significantly lower than typical baseline.">>
        ELSE IF ~IsNaN(cdp) /\ RLt(Rat(35, 100), cdp)
        THEN <<"Current draw higher than expected for this pump.">>
        ELSE IF ~IsNaN(cdp) /\ RLt(cdp, Rat(-35, 100))
        THEN <<"Current draw lower than expected for this pump.">>
        ELSE <<FallbackReason>>

\* build_reason: the sentences of the conditions that fire, in order;
\* " ".join(reasons) is represented by the sequence of the joined sentences
build_reason(row, baseline) ==
    LET pdp == row.pressure_dev_pct
        cdp == row.current_dev_pct
        fr == row.FlowRate
        fr_mean5 == row.FlowRate_roll_mean_5
        pressure ==
            IF IsNaN(pdp) THEN <<>>
            ELSE IF RLt(Rat(35, 100), pdp)
            THEN <<"Pressure significantly higher than typical baseline.">>
            ELSE IF RLt(pdp, Rat(-35, 100))
            THEN <<"Pressure significantly lower than typical baseline.">>
            ELSE <<>>
        current ==
            IF IsNaN(cdp) THEN <<>>
            ELSE IF RLt(Rat(35, 100), cdp)
            THEN <<"Current draw higher than expected for this pump.">>
            ELSE IF RLt(cdp, Rat(-35, 100))
            THEN <<"Current draw lower than expected for this pump.">>
            ELSE <<>>
        flow ==
            IF IsNaN(fr) \/ IsNaN(fr_mean5) \/ fr_mean5 = Zero THEN <<>>
            ELSE IF RLt(fr, RMul(Rat(7, 10), fr_mean5))
            THEN <<"Flow rate has dropped compared to recent history.">>
            ELSE IF RLt(RMul(Rat(13, 10), fr_mean5), fr)
            THEN <<"Flow rate is spiking compared to recent history.">>
            ELSE <<>>
        conductivity ==
            IF baseline = <<>> \/ "Conductivity_31489" \notin DOMAIN row
            THEN <<>>
            ELSE LET cond == row["Conductivity_31489"]
                     b == baseline[1]
                 IN  IF IsNaN(cond) \/ IsNaN(b) \/ ~RLt(Zero, b) THEN <<>>
                     ELSE IF RLt(RMul(Rat(13, 10), b), cond)
                     THEN <<"Conductivity higher than typical for this pump.">>
                     ELSE <<>>
        reasons == pressure \o current \o flow \o conductivity
    IN  IF reasons = <<>> THEN <<FallbackReason>> ELSE reasons

\* --- Build final payload ---
payload(anoms, all_scored) ==
    LET baseline == cond_baseline(all_scored)
    IN  [i \in 1..Len(anoms) |->
            [pumpId |-> anoms[i].SitePumpID,
             timestamp |-> anoms[i].PumpLogDate,
             current |-> anoms[i].OutputCurrent,
             pressure |-> anoms[i].Pressure,
             conductivity |-> IF "Conductivity_31489" \in DOMAIN anoms[i]
                              THEN anoms[i]["Conductivity_31489"] ELSE Zero,
             score |-> anoms[i].anom_score,
             severity |-> anoms[i].severity,
             reason |-> build_reason(anoms[i], baseline)]]

\* an accumulator that lives across calls
new_all_rows_kept(previous) == previous

\* all_rows = []  (line 234): the accumulator starts empty in every call
new_all_rows(previous) == <<>>

-----------------------------------------------------------------------------
(* The earlier version of the module (ml_model-checkpoint.py): one model   *)
(* for all pumps, severity over all rows, one-sentence explanations.  The  *)
(* standard deviation of a feature is represented by its square, and a     *)
(* z-score by the pair <<value - mean, squared std>>.                      *)

EXPLANATION_FEATURES ==
    <<"Frequency", "OutputCurrent", "OutputVoltage", "Pressure">>

\* df[col].std() squared: the sample variance, missing under 2 rows
column_var(rows, c) ==
    LET n == Len(rows)
        sm == SumCol(rows, c, 1..n)
    IN  IF n < 2 THEN NaN
        ELSE RDiv(RSub(SumSqCol(rows, c, 1..n), RDiv(RMul(sm, sm), Num(n))),
                  Num(n - 1))

\* build_feature_stats: mean and std of every explanation feature that is
\* a column; a std of zero or NaN becomes 1.0
build_feature_stats(rows) ==
    LET cols == {EXPLANATION_FEATURES[k] : k \in 1..Len(EXPLANATION_FEATURES)}
                \cap (IF rows = <<>> THEN {} ELSE DOMAIN rows[1])
    IN  [c \in cols |->
            LET v == column_var(rows, c)
            IN  [mean |-> MeanCol(rows, c, 1..Len(rows)),
                 std |-> IF IsNaN(v) \/ v = Zero THEN Num(1) ELSE v]]

\* abs(z1) > abs(z2) for z-scores <<deviation, squared std>>
AbsGreater(z1, z2) ==
    RLt(RMul(RMul(z2[1], z2[1]), z1[2]), RMul(RMul(z1[1], z1[1]), z2[2]))

\* max(deviations, key=lambda x: abs(x[1])): a later element replaces the
\* running maximum only when its key is greater
RECURSIVE max_abs(_, _, _)
max_abs(deviations, k, best) ==
    IF k > Len(deviations) THEN best
    ELSE max_abs(deviations, k + 1,
                 IF AbsGreater(deviations[k][2], deviations[best][2])
                 THEN k ELSE best)

\* the running maximum replaced also by a later element of equal key
RECURSIVE max_abs_last(_, _, _)
max_abs_last(deviations, k, best) ==
    IF k > Len(deviations) THEN best
    ELSE max_abs_last(deviations, k + 1,
                      IF AbsGreater(deviations[best][2], deviations[k][2])
                      THEN best ELSE k)

\* the fixed sentence of a feature and a direction
explain_template(col, direction) ==
    IF col = "Frequency" THEN
        IF direction = "high"
        THEN "Frequency is significantly higher than typical values."
        ELSE "Frequency dropped lower than usual or towards zero."
    ELSE IF col = "OutputCurrent" THEN
        IF direction = "high"
        THEN "Output current is unusually high compared to normal operation."
        ELSE "Output current is unusually low, indicating possible pump stall or no-load."
    ELSE IF col = "OutputVoltage" THEN
        IF direction = "high"
        THEN "Output voltage spikes above its normal range."
        ELSE "Output voltage is lower than typical operating levels."
    ELSE IF col = "Pressure" THEN
        IF direction = "high"
        THEN "Discharge pressure is higher than normal, suggesting possible blockage or restriction."
        ELSE "Discharge pressure is lower than normal, suggesting leak, cavitation, or no-flow condition."
    ELSE "Anomalous behavior detected across pump signals."

\* the z-scores of the explanation features of a row, in the fixed order
explain_deviations(row, stats) ==
    LET InBoth(c) == c \in DOMAIN stats /\ c \in DOMAIN row
        cols == SelectSeq(EXPLANATION_FEATURES, InBoth)
    IN  [k \in 1..Len(cols) |->
            <<cols[k], <<RSub(row[cols[k]], stats[cols[k]].mean),
                         stats[cols[k]].std>>>>]

\* an explanation that takes the last of the features of largest z-score
explain_row_last(row, stats) ==
    LET deviations == explain_deviations(row, stats)
    IN  IF deviations = <<>>
        THEN "Anomalous behavior detected across pump signals."
        ELSE LET pick == deviations[max_abs_last(deviations, 2, 1)]
             IN  explain_template(pick[1],
                    IF RLt(Zero, pick[2][1]) THEN "high" ELSE "low")

\* explain_row: the sentence of the feature with the largest z-score
explain_row(row, stats) ==
    LET deviations == explain_deviations(row, stats)
    IN  IF deviations = <<>>
        THEN "Anomalous behavior detected across pump signals."
        ELSE LET pick == deviations[max_abs(deviations, 2, 1)]
             IN  explain_template(pick[1],
                    IF RLt(Zero, pick[2][1]) THEN "high" ELSE "low")

\* sort_values("PumpLogDate") and sort_values("PumpLogDate", ascending=False)
LegacyBefore(a, b) == a.PumpLogDate < b.PumpLogDate
LegacyAfter(a, b) == a.PumpLogDate > b.PumpLogDate

\* lines 221-225: copy, sort by time, ffill, bfill, fillna(0)
legacy_clean(rows) == fillna0(bfill(ffill(StableSort(rows, LegacyBefore))))

\* lines 235-253: flag, score, and the severity of every row from the
\* quantiles of the scores of all rows
legacy_score(rows) ==
    LET scores == [i \in 1..Len(rows) |-> decision_function(rows[i])]
        q_low == quantile(scores, QLow)
        q_med == quantile(scores, QMed)
    IN  [i \in 1..Len(rows) |->
            rows[i] @@
            [anom_flag |-> IF predict(rows[i]) = -1 THEN 1 ELSE 0,
             anom_score |-> scores[i],
             severity |-> map_severity(scores[i], q_low, q_med)]]

\* line 256: alerts_df = df.copy()
legacy_alerts(rows) == rows

\* lines 258-284: statistics of all rows, newest first, one record a row
legacy_records_of(rows) ==
    LET stats == build_feature_stats(rows)
        alerts_df == StableSort(legacy_alerts(rows), LegacyAfter)
    IN  [i \in 1..Len(alerts_df) |->
            [pumpId |-> alerts_df[i].SitePumpID,
             timestamp |-> alerts_df[i].PumpLogDate,
             frequency |-> alerts_df[i].Frequency,
             current |-> alerts_df[i].OutputCurrent,
             voltage |-> alerts_df[i].OutputVoltage,
             pressure |-> alerts_df[i].Pressure,
             score |-> alerts_df[i].anom_score,
             severity |-> alerts_df[i].severity,
             reason |-> explain_row(alerts_df[i], stats)]]

-----------------------------------------------------------------------------
(* Inputs                                                                  *)

\* the pumps of the modelled windows: 46962 has a flow meter and none of
\* the selected sensors, 47366 has a flow meter and sensors
TelPumps == {46962, 47366}
FlowMeters == {4685, 5077}
Sensors == {31489}

\* the feature names of the trained bundle, and a feature name that no
\* column of PumpLogs, no engineered column and no sensor pivot can carry
TrainedFeatures ==
    {"Pressure", "OutputCurrent", "FlowRate",
     "pressure_dev", "current_dev", "pressure_dev_pct", "current_dev_pct",
     "Pressure_roll_mean_5", "Pressure_roll_std_5",
     "OutputCurrent_roll_mean_5", "OutputCurrent_roll_std_5",
     "FlowRate_roll_mean_5", "FlowRate_roll_std_5"}
    \cup {SENSOR_TO_FEATURE[sid] : sid \in DOMAIN SENSOR_TO_FEATURE}

ForeignFeature == "Vibration_rms"

\* the columns build_features_21 is able to produce from its three queries
ProducibleCols ==
    TrainedFeatures \cup {"SitePumpID", "PumpLogDate", "ts_minute"}

\* the instants of the varied readings: the first two ticks of the window
\* (the same minute) and its last tick (a later minute)
Ticks == {0, 1, MaxTick}

\* telemetry rows with varied readings: either the pressure is missing, or
\* pressure and current follow a signal of the time
TelemetryRows ==
    {[SitePumpID |-> p, PumpLogDate |-> t,
      Pressure |-> IF missing THEN NaN ELSE Num(1 + 2 * t),
      OutputCurrent |-> IF missing THEN Num(2) ELSE Num(4 + t),
      model_out |-> <<-1, -1>>] :
        p \in TelPumps, t \in Ticks, missing \in BOOLEAN}

\* telemetry rows with plain readings and varied model answers: anomalous
\* rows at the first and at the last instant of the window, normal rows at
\* the first
ScoredRows ==
    {[SitePumpID |-> p, PumpLogDate |-> t, Pressure |-> Num(1),
      OutputCurrent |-> Num(1), model_out |-> m] :
        p \in TelPumps, t \in {0, MaxTick}, m \in {<<-1, -2>>, <<-1, -1>>}}
    \cup
    {[SitePumpID |-> p, PumpLogDate |-> 0, Pressure |-> Num(1),
      OutputCurrent |-> Num(1), model_out |-> <<1, 1>>] : p \in TelPumps}

\* flow-meter and sensor readings; the reading of a meter or sensor is a
\* fixed signal of the time, different at every tick
FlowRows ==
    {[FlowMeterID |-> f, LogStartTime |-> t, FlowRate |-> Num(2 + 4 * t)] :
        f \in FlowMeters, t \in Ticks}

SensorRows ==
    {[SensorID |-> sid, LogDateTimeFixed |-> t, Value |-> Num(4 + 6 * t)] :
        sid \in Sensors, t \in Ticks}

FlowSamples ==
    {[FlowMeterID |-> 5077, LogStartTime |-> 0, FlowRate |-> Num(2)]}

SensorSamples ==
    {[SensorID |-> 31489, LogDateTimeFixed |-> 0, Value |-> Num(4)]}

\* rows handed to build_reason: deviation percentages below, at, between
\* and above the thresholds or missing; a flow rate against a short-window
\* mean that is zero or 10; a conductivity that is missing, 0, 13 or 14
DevValues == {NaN, Rat(-1, 2), Rat(-35, 100), Zero, Rat(35, 100), Rat(1, 2)}

FlowPairs ==
    {<<Zero, Zero>>, <<Num(5), Zero>>, <<Num(6), Num(10)>>,
     <<Num(7), Num(10)>>, <<Num(10), Num(10)>>, <<Num(13), Num(10)>>,
     <<Num(14), Num(10)>>}

ReasonRows ==
    {[pressure_dev_pct |-> pdp, current_dev_pct |-> cdp, FlowRate |-> f[1],
      FlowRate_roll_mean_5 |-> f[2], Conductivity_31489 |-> cond] :
        pdp \in DevValues, cdp \in DevValues, f \in FlowPairs,
        cond \in {NaN, Zero, Num(13), Num(14)}}

\* cond_baseline: None, or a median that is missing, zero, negative or 10
ReasonBaselines == {<<>>, <<NaN>>, <<Zero>>, <<Num(-10)>>, <<Num(10)>>}

\* PumpLogs rows of the earlier version, without their timestamps: plain
\* readings with varied model answers, and varied readings (every feature
\* low or high) that the model calls anomalous
LegacyScoredRows ==
    {[SitePumpID |-> 47366, Frequency |-> Num(1), OutputCurrent |-> Num(1),
      OutputVoltage |-> Num(1), Pressure |-> Num(1), model_out |-> m] :
        m \in {<<-1, -2>>, <<-1, -1>>, <<1, 1>>}}

LegacyVariedRows ==
    {[SitePumpID |-> 47366, Frequency |-> Num(f), OutputCurrent |-> Num(c),
      OutputVoltage |-> Num(v), Pressure |-> Num(q), model_out |-> <<-1, -1>>] :
        f \in {0, 2}, c \in {0, 2}, v \in {0, 2}, q \in {0, 2}}

-----------------------------------------------------------------------------
(* State machine                                                           *)

\* the module is imported (the bundle is loaded) and a call of
\* detect_anomalies starts fetching its window
InitWith(bundles, feature_sets) ==
    /\ pump_in = <<>>
    /\ sensor_in = <<>>
    /\ flow_in = <<>>
    /\ MODEL_BY_PUMP \in bundles
    /\ FEATURE_COLS \in feature_sets
    /\ pc = "fetch"
    /\ pump_df = <<>>
    /\ df = <<>>
    /\ todo = <<>>
    /\ all_rows = <<>>
    /\ bound = FALSE
    /\ merged = <<>>
    /\ anomalies = <<>>
    /\ outcome = "none"
    /\ results = <<>>
    /\ run = 1
    /\ history = <<>>

\* build_reason has not been called
ReasonIdle ==
    /\ reason_row = <<>>
    /\ reason_baseline = <<>>
    /\ reason_ret = <<>>

\* the earlier version of detect_anomalies starts fetching its window
LegacyStart ==
    /\ legacy_in = <<>>
    /\ legacy_pc = "fetch"
    /\ legacy_df = <<>>
    /\ legacy_records = <<>>

Init ==
    /\ InitWith(SUBSET TelPumps,
                {TrainedFeatures, TrainedFeatures \cup {ForeignFeature}})
    /\ ReasonIdle
    /\ LegacyStart

InitScore ==
    /\ InitWith(SUBSET TelPumps \ {{}}, {TrainedFeatures})
    /\ ReasonIdle
    /\ LegacyStart

InitFeat ==
    /\ InitWith({TelPumps}, {TrainedFeatures})
    /\ ReasonIdle
    /\ LegacyStart

\* fetch_recent_data, PumpLogs: ORDER BY PumpLogDate ASC.  Rows of the same
\* instant are taken in pump order and, for one pump, from the less to the
\* more anomalous (the order the final sort has to reverse); with
\* `distinct`, a pump has one row per instant.
ReadPump(rows, max, distinct) ==
    /\ pc = "fetch"
    /\ run = 1
    /\ Len(pump_in) < max
    /\ \E r \in rows :
        /\ IF pump_in = <<>> THEN TRUE
           ELSE LET last == pump_in[Len(pump_in)]
                IN  \/ last.PumpLogDate < r.PumpLogDate
                    \/ /\ last.PumpLogDate = r.PumpLogDate
                       /\ last.SitePumpID < r.SitePumpID
                    \/ /\ ~distinct
                       /\ last.PumpLogDate = r.PumpLogDate
                       /\ last.SitePumpID = r.SitePumpID
                       /\ last.model_out[2] >= r.model_out[2]
        /\ pump_in' = Append(pump_in, r)
    /\ UNCHANGED <<sensor_in, flow_in, MODEL_BY_PUMP, FEATURE_COLS, pc,
                   pump_df, df, todo, all_rows, bound, merged, anomalies,
                   outcome, results, run, history>>
    /\ UNCHANGED <<reason_vars, legacy_vars>>

ReadTelemetryRow == ReadPump(TelemetryRows, MaxTel, TRUE)
ReadPlainRow == ReadPump(ScoredRows, MaxPlain, FALSE)
ReadScoredRow == ReadPump(ScoredRows, MaxRows, FALSE)

\* fetch_recent_data, SensorLogs: no ORDER BY; the readings are taken in
\* time order, one per sensor and instant (the pivot's mean does not
\* depend on the order of the rows)
ReadSensor(rows) ==
    /\ pc = "fetch"
    /\ run = 1
    /\ Len(sensor_in) + Len(flow_in) < MaxAux
    /\ \E r \in rows :
        /\ IF sensor_in = <<>> THEN TRUE
           ELSE LET last == sensor_in[Len(sensor_in)]
                IN  \/ last.LogDateTimeFixed < r.LogDateTimeFixed
                    \/ /\ last.LogDateTimeFixed = r.LogDateTimeFixed
                       /\ last.SensorID < r.SensorID
        /\ sensor_in' = Append(sensor_in, r)
    /\ UNCHANGED <<pump_in, flow_in, MODEL_BY_PUMP, FEATURE_COLS, pc,
                   pump_df, df, todo, all_rows, bound, merged, anomalies,
                   outcome, results, run, history>>
    /\ UNCHANGED <<reason_vars, legacy_vars>>

ReadSensorRow == ReadSensor(SensorRows)
ReadSensorSample == ReadSensor(SensorSamples)

\* fetch_recent_data, FlowMeterLogs: ORDER BY LogStartTime ASC, one
\* reading per meter and instant
ReadFlow(rows) ==
    /\ pc = "fetch"
    /\ run = 1
    /\ Len(sensor_in) + Len(flow_in) < MaxAux
    /\ \E r \in rows :
        /\ IF flow_in = <<>> THEN TRUE
           ELSE LET last == flow_in[Len(flow_in)]
                IN  \/ last.LogStartTime < r.LogStartTime
                    \/ /\ last.LogStartTime = r.LogStartTime
                       /\ last.FlowMeterID < r.FlowMeterID
        /\ flow_in' = Append(flow_in, r)
    /\ UNCHANGED <<pump_in, sensor_in, MODEL_BY_PUMP, FEATURE_COLS, pc,
                   pump_df, df, todo, all_rows, bound, merged, anomalies,
                   outcome, results, run, history>>
    /\ UNCHANGED <<reason_vars, legacy_vars>>

ReadFlowRow == ReadFlow(FlowRows)
ReadFlowSample == ReadFlow(FlowSamples)

\* lines 232-234: df = build_features_21(limit); all_rows = []
BuildFeatures ==
    /\ pc = "fetch"
    /\ pump_df' = aligned_pump_df(pump_in, flow_in)
    /\ df' = features_of(pump_df', sensor_in, FEATURE_COLS)
    /\ todo' = group_keys(df')
    /\ all_rows' = new_all_rows(all_rows)
    /\ pc' = "loop"
    /\ UNCHANGED <<pump_in, sensor_in, flow_in, MODEL_BY_PUMP, FEATURE_COLS,
                   bound, merged, anomalies, outcome, results, run, history>>
    /\ UNCHANGED <<reason_vars, legacy_vars>>

\* lines 237-240: the pump has no model pack: continue
SkipPump ==
    /\ pc = "loop"
    /\ todo # <<>>
    /\ ~has_model_pack(MODEL_BY_PUMP, Head(todo))
    /\ todo' = Tail(todo)
    /\ UNCHANGED <<pump_in, sensor_in, flow_in, MODEL_BY_PUMP, FEATURE_COLS,
                   pc, pump_df, df, all_rows, bound, merged, anomalies,
                   outcome, results, run, history>>
    /\ UNCHANGED <<reason_vars, legacy_vars>>

\* lines 242-264: score the pump, concatenate, keep the anomalies; there
\* are none: return []
ScorePumpReturn ==
    /\ pc = "loop"
    /\ todo # <<>>
    /\ has_model_pack(MODEL_BY_PUMP, Head(todo))
    /\ LET scored == all_rows \o score_group(df, Head(todo))
       IN  /\ keep_anomalies(scored) = <<>>
           /\ all_rows' = scored
           /\ merged' = scored
    /\ anomalies' = <<>>
    /\ bound' = TRUE
    /\ results' = <<>>
    /\ outcome' = "returned"
    /\ pc' = "done"
    /\ UNCHANGED <<pump_in, sensor_in, flow_in, MODEL_BY_PUMP, FEATURE_COLS,
                   pump_df, df, todo, run, history>>
    /\ UNCHANGED <<reason_vars, legacy_vars>>

\* lines 242-284: score the pump, concatenate, keep the anomalies, sort
\* them and map their severity; go on with the next pump
ScorePump ==
    /\ pc = "loop"
    /\ todo # <<>>
    /\ has_model_pack(MODEL_BY_PUMP, Head(todo))
    /\ LET scored == all_rows \o score_group(df, Head(todo))
       IN  /\ keep_anomalies(scored) # <<>>
           /\ all_rows' = scored
           /\ merged' = scored
           /\ anomalies' = rank_anomalies(scored, keep_anomalies(scored))
    /\ bound' = TRUE
    /\ todo' = Tail(todo)
    /\ UNCHANGED <<pump_in, sensor_in, flow_in, MODEL_BY_PUMP, FEATURE_COLS,
                   pc, pump_df, df, outcome, results, run, history>>
    /\ UNCHANGED <<reason_vars, legacy_vars>>

\* line 289 after a loop that scored no pump: `merged` was never assigned
\* and reading it raises UnboundLocalError
FinishRaise ==
    /\ pc = "loop"
    /\ todo = <<>>
    /\ ~bound
    /\ outcome' = "raised"
    /\ results' = <<>>
    /\ pc' = "done"
    /\ UNCHANGED <<pump_in, sensor_in, flow_in, MODEL_BY_PUMP, FEATURE_COLS,
                   pump_df, df, todo, all_rows, bound, merged, anomalies, run,
                   history>>
    /\ UNCHANGED <<reason_vars, legacy_vars>>

\* lines 287-353: conductivity baseline, reasons, payload; return results
Finish ==
    /\ pc = "loop"
    /\ todo = <<>>
    /\ bound
    /\ results' = payload(anomalies, merged)
    /\ outcome' = "returned"
    /\ pc' = "done"
    /\ UNCHANGED <<pump_in, sensor_in, flow_in, MODEL_BY_PUMP, FEATURE_COLS,
                   pump_df, df, todo, all_rows, bound, merged, anomalies, run,
                   history>>
    /\ UNCHANGED <<reason_vars, legacy_vars>>

\* the caller invokes detect_anomalies again on the same window and bundle;
\* the locals of the new call are unassigned until the call assigns them
Invoke ==
    /\ pc = "done"
    /\ run < MaxRuns
    /\ history' = Append(history, [outcome |-> outcome, results |-> results])
    /\ run' = run + 1
    /\ pc' = "fetch"
    /\ pump_df' = <<>>
    /\ df' = <<>>
    /\ todo' = <<>>
    /\ bound' = FALSE
    /\ merged' = <<>>
    /\ anomalies' = <<>>
    /\ outcome' = "none"
    /\ results' = <<>>
    /\ UNCHANGED <<pump_in, sensor_in, flow_in, MODEL_BY_PUMP, FEATURE_COLS,
                   all_rows>>
    /\ UNCHANGED <<reason_vars, legacy_vars>>

Next ==
    \/ ReadPlainRow
    \/ ReadSensorSample
    \/ ReadFlowSample
    \/ BuildFeatures
    \/ SkipPump
    \/ ScorePumpReturn
    \/ ScorePump
    \/ FinishRaise
    \/ Finish
    \/ Invoke

Spec == Init /\ [][Next]_vars

NextScore ==
    \/ ReadScoredRow
    \/ BuildFeatures
    \/ SkipPump
    \/ ScorePumpReturn
    \/ ScorePump
    \/ FinishRaise
    \/ Finish

SpecScore == InitScore /\ [][NextScore]_vars

NextFeat ==
    \/ ReadTelemetryRow
    \/ ReadSensorRow
    \/ ReadFlowRow
    \/ BuildFeatures

SpecFeat == InitFeat /\ [][NextFeat]_vars

\* build_reason is about to be called on a row, with cond_baseline set
InitReason ==
    /\ InitWith({TelPumps}, {TrainedFeatures})
    /\ LegacyStart
    /\ reason_row \in ReasonRows
    /\ reason_baseline \in ReasonBaselines
    /\ reason_ret = <<>>

\* line 350: "reason": build_reason(row)
CallBuildReason ==
    /\ reason_row # <<>>
    /\ reason_ret = <<>>
    /\ reason_ret' = build_reason(reason_row, reason_baseline)
    /\ UNCHANGED <<pump_in, sensor_in, flow_in, MODEL_BY_PUMP, FEATURE_COLS,
                   pc, pump_df, df, todo, all_rows, bound, merged, anomalies,
                   outcome, results, run, history>>
    /\ UNCHANGED <<reason_row, reason_baseline, legacy_vars>>

NextReason == CallBuildReason

SpecReason == InitReason /\ [][NextReason]_vars

\* the earlier version is imported and detect_anomalies is called
InitLegacy ==
    /\ InitWith({TelPumps}, {TrainedFeatures})
    /\ ReasonIdle
    /\ LegacyStart

\* a number that orders the varied readings
RowCode(r) ==
    8 * r.Frequency[1] + 4 * r.OutputCurrent[1] + 2 * r.OutputVoltage[1]
    + r.Pressure[1]

\* fetch_pump_logs: ORDER BY PumpLogDate DESC; the rows of the window have
\* distinct instants, the first row fetched being the newest.  With
\* `ordered`, the window holds its readings in one order only, the highest
\* first (nothing but the instants depends on the order of the rows).
ReadLegacy(rows, max, ordered) ==
    /\ legacy_pc = "fetch"
    /\ Len(legacy_in) < max
    /\ \E r \in rows :
        /\ (ordered /\ legacy_in # <<>>) =>
                RowCode(r) <= RowCode(legacy_in[Len(legacy_in)])
        /\ legacy_in' = Append(legacy_in,
                            r @@ [PumpLogDate |-> max - Len(legacy_in) - 1])
    /\ UNCHANGED <<pump_in, sensor_in, flow_in, MODEL_BY_PUMP, FEATURE_COLS,
                   pc, pump_df, df, todo, all_rows, bound, merged, anomalies,
                   outcome, results, run, history>>
    /\ UNCHANGED <<reason_vars, legacy_pc, legacy_df, legacy_records>>

ReadLegacyScored == ReadLegacy(LegacyScoredRows, MaxLegacy, FALSE)
ReadLegacyVaried == ReadLegacy(LegacyVariedRows, MaxPop, TRUE)

\* lines 215-217: if pump_df.empty: return []
LegacyReturnEmpty ==
    /\ legacy_pc = "fetch"
    /\ legacy_in = <<>>
    /\ legacy_records' = <<>>
    /\ legacy_pc' = "done"
    /\ UNCHANGED <<pump_in, sensor_in, flow_in, MODEL_BY_PUMP, FEATURE_COLS,
                   pc, pump_df, df, todo, all_rows, bound, merged, anomalies,
                   outcome, results, run, history>>
    /\ UNCHANGED <<reason_vars, legacy_in, legacy_df>>

\* lines 221-284: clean, score, rank, explain and return the records (the
\* four features of the model are columns of the query, so the check of
\* lines 228-230 passes)
LegacyDetect ==
    /\ legacy_pc = "fetch"
    /\ legacy_in # <<>>
    /\ legacy_df' = legacy_score(legacy_clean(legacy_in))
    /\ legacy_records' = legacy_records_of(legacy_df')
    /\ legacy_pc' = "done"
    /\ UNCHANGED <<pump_in, sensor_in, flow_in, MODEL_BY_PUMP, FEATURE_COLS,
                   pc, pump_df, df, todo, all_rows, bound, merged, anomalies,
                   outcome, results, run, history>>
    /\ UNCHANGED <<reason_vars, legacy_in>>

NextLegacy ==
    \/ ReadLegacyScored
    \/ LegacyReturnEmpty
    \/ LegacyDetect

SpecLegacy == InitLegacy /\ [][NextLegacy]_vars

NextExplain ==
    \/ ReadLegacyVaried
    \/ LegacyReturnEmpty
    \/ LegacyDetect

SpecExplain == InitLegacy /\ [][NextExplain]_vars

-----------------------------------------------------------------------------
(* Claims about the returned list                                          *)

Returned == pc = "done" /\ outcome = "returned"

RecordPumps == {results[i].pumpId : i \in 1..Len(results)}

\* C1: every returned list is ordered by timestamp descending and, among
\* equal timestamps, by score ascending: of two adjacent records the first
\* has a later timestamp, or the same timestamp and a score <= the second's.
C1_OrderedByTimeThenScore ==
    Returned =>
        \A i \in 1..(Len(results) - 1) :
            \/ results[i].timestamp > results[i + 1].timestamp
            \/ /\ results[i].timestamp = results[i + 1].timestamp
               /\ RLe(results[i].score, results[i + 1].score)

\* a returned list of two pumps in which the sort had to order both keys
C1_Witness ==
    /\ Returned
    /\ Cardinality(RecordPumps) = 2
    /\ \E i, j \in 1..Len(results) :
        /\ results[i].timestamp = results[j].timestamp
        /\ results[i].score # results[j].score
    /\ \E i, j \in 1..Len(results) :
        results[i].timestamp # results[j].timestamp

\* C2: no returned record carries the id of a pump that has no entry in
\* MODEL_BY_PUMP, whatever the other pumps of the batch are.
C2_NoRecordWithoutBundle ==
    Returned => \A i \in 1..Len(results) : results[i].pumpId \in MODEL_BY_PUMP

\* records are returned although a pump without a bundle, visited first,
\* has rows its model would call anomalous
C2_Witness ==
    /\ Returned
    /\ results # <<>>
    /\ \E i \in 1..Len(df) :
        /\ df[i].SitePumpID \notin MODEL_BY_PUMP
        /\ df[i].model_out[1] = -1
        /\ \A j \in 1..Len(results) : df[i].SitePumpID < results[j].pumpId

\* C3: every returned record corresponds to a feature row labeled anomalous
\* (pred = -1): for every pump, timestamp and score, there are at most as
\* many records as anomalous rows of the feature table.
C3_OnlyAnomalousRows ==
    Returned =>
        \A i \in 1..Len(results) :
            Cardinality({j \in 1..Len(results) :
                            /\ results[j].pumpId = results[i].pumpId
                            /\ results[j].timestamp = results[i].timestamp
                            /\ results[j].score = results[i].score})
            <= Cardinality({k \in 1..Len(df) :
                            /\ df[k].SitePumpID = results[i].pumpId
                            /\ df[k].PumpLogDate = results[i].timestamp
                            /\ df[k].model_out[1] = -1
                            /\ Num(df[k].model_out[2]) = results[i].score})

\* records are returned while a scored pump also has rows labeled normal
C3_Witness ==
    /\ Returned
    /\ results # <<>>
    /\ \E k \in 1..Len(df) :
        /\ df[k].SitePumpID \in MODEL_BY_PUMP
        /\ df[k].model_out[1] = 1

\* C4: an empty telemetry window makes detect_anomalies return an empty
\* list, without raising.
C4_EmptyWindowReturnsEmpty ==
    (pc = "done" /\ pump_in = <<>>) => (outcome = "returned" /\ results = <<>>)

\* the k-th smallest of a sequence of numbers, by counting
OrderStat(values, k) ==
    CHOOSE x \in {values[i] : i \in 1..Len(values)} :
        /\ Cardinality({i \in 1..Len(values) : RLt(values[i], x)}) < k
        /\ k <= Cardinality({i \in 1..Len(values) : RLe(values[i], x)})

\* the linear-interpolation quantile num/den of a non-empty sequence
LinearQuantile(values, num, den) ==
    LET h == Rat((Len(values) - 1) * num, den)
        lo == h[1] \div h[2]
        below == OrderStat(values, lo + 1)
    IN  IF h[1] % h[2] = 0 THEN below
        ELSE RAdd(below, RMul(RSub(h, Num(lo)),
                              RSub(OrderStat(values, lo + 2), below)))

\* C5: with q10 and q25 the linear-interpolation 0.10 and 0.25 quantiles
\* of the scores of all returned records, a record is HIGH iff its score
\* is <= q10, MEDIUM iff q10 < score <= q25, and LOW otherwise.
C5_SeverityByQuantilesOfReturned ==
    (Returned /\ results # <<>>) =>
        LET scores == [i \in 1..Len(results) |-> results[i].score]
            q10 == LinearQuantile(scores, 1, 10)
            q25 == LinearQuantile(scores, 1, 4)
        IN  \A i \in 1..Len(results) :
                LET sc == results[i].score
                    sev == results[i].severity
                IN  /\ sev \in {"HIGH", "MEDIUM", "LOW"}
                    /\ sev = "HIGH" <=> RLe(sc, q10)
                    /\ sev = "MEDIUM" <=> (RLt(q10, sc) /\ RLe(sc, q25))
                    /\ sev = "LOW" <=> RLt(q25, sc)

\* records of two pumps, merged, among which one is MEDIUM and one HIGH,
\* while a scored row labeled normal stays out of the quantiles
C5_Witness ==
    /\ Returned
    /\ Cardinality(RecordPumps) = 2
    /\ \E i \in 1..Len(results) : results[i].severity = "MEDIUM"
    /\ \E i \in 1..Len(results) : results[i].severity = "HIGH"

-----------------------------------------------------------------------------
(* Claims about the severity policy and about the merge of the pumps       *)

SeverityPolicies == {"population", "anomalies"}

\* the scores a policy takes its quantiles over: the scores of all rows of
\* the pumps that have a model pack, or the scores of the returned records
PolicyScores(policy) ==
    IF policy = "population"
    THEN LET IsScored(r) == r.SitePumpID \in MODEL_BY_PUMP
             scored == SelectSeq(df, IsScored)
         IN  [k \in 1..Len(scored) |-> Num(scored[k].model_out[2])]
    ELSE [k \in 1..Len(results) |-> results[k].score]

\* the severity of a score under a policy
SeverityUnder(policy, sc) ==
    LET q10 == LinearQuantile(PolicyScores(policy), 1, 10)
        q25 == LinearQuantile(PolicyScores(policy), 1, 4)
    IN  IF RLe(sc, q10) THEN "HIGH"
        ELSE IF RLe(sc, q25) THEN "MEDIUM" ELSE "LOW"

\* C11: the severity policy is an option of the invocation: whichever of
\* the two policies (quantiles over all scored rows, quantiles over the
\* anomalous rows only) the caller selects, the severities of the returned
\* records are the ones of that policy.
C11_BothPoliciesSelectable ==
    (Returned /\ results # <<>>) =>
        \A policy \in SeverityPolicies :
            \A i \in 1..Len(results) :
                results[i].severity = SeverityUnder(policy, results[i].score)

\* The reference procedure: score every pump that has a bundle, merge the
\* results of all pumps, keep the anomalous rows, and only then sort them
\* and compute the severity once over the merged set.
ReferenceAnomalies ==
    LET IsFlagged(r) == r.SitePumpID \in MODEL_BY_PUMP /\ r.model_out[1] = -1
        NewerThenLower(a, b) ==
            \/ a.PumpLogDate > b.PumpLogDate
            \/ /\ a.PumpLogDate = b.PumpLogDate
               /\ a.model_out[2] < b.model_out[2]
    IN  StableSort(SelectSeq(df, IsFlagged), NewerThenLower)

ReferenceRecords ==
    LET a == ReferenceAnomalies
        scores == [i \in 1..Len(a) |-> Num(a[i].model_out[2])]
        q10 == LinearQuantile(scores, 1, 10)
        q25 == LinearQuantile(scores, 1, 4)
    IN  [i \in 1..Len(a) |->
            [pumpId |-> a[i].SitePumpID,
             timestamp |-> a[i].PumpLogDate,
             score |-> scores[i],
             severity |-> IF RLe(scores[i], q10) THEN "HIGH"
                          ELSE IF RLe(scores[i], q25) THEN "MEDIUM"
                          ELSE "LOW"]]

\* C12: whatever detect_anomalies returns is what the reference procedure
\* (merge the scored rows of all pumps first, then filter, sort and map the
\* severity once) returns: the same records in the same order with the
\* same severities; in particular an anomalous row of a pump processed
\* later is returned although the pumps before it have no anomalous rows.
C12_SameAsMergeThenRank ==
    Returned =>
        [i \in 1..Len(results) |->
            [pumpId |-> results[i].pumpId,
             timestamp |-> results[i].timestamp,
             score |-> results[i].score,
             severity |-> results[i].severity]] = ReferenceRecords

-----------------------------------------------------------------------------
(* Claims about the bundle's feature list and about empty streams          *)

\* C6: when FEATURE_COLS names a column the aligned schema cannot produce,
\* the pipeline fails at bundle-load validation: no row is ever scored and
\* no list is ever returned.
C6_FailsFastOnForeignFeature ==
    (FEATURE_COLS \ ProducibleCols # {}) =>
        (all_rows = <<>> /\ outcome # "returned")

\* the anomalous rows of the pumps that have a model pack
AnomalousScoredRows ==
    {k \in 1..Len(df) : /\ df[k].SitePumpID \in MODEL_BY_PUMP
                        /\ df[k].model_out[1] = -1}

\* C7: with an entirely empty sensor (or flow) stream and a non-empty
\* telemetry, the feature table has one row per telemetry row, every
\* feature column the model requires is present and never missing, and
\* detect_anomalies returns, without raising, the anomalous rows as records.
C7_EmptyStreamStillYieldsRecords ==
    (/\ sensor_in = <<>> \/ flow_in = <<>>
     /\ pump_in # <<>>
     /\ pc \in {"loop", "done"}) =>
        /\ Len(df) = Len(pump_in)
        /\ \A i \in 1..Len(df) : \A c \in FEATURE_COLS \cap ProducibleCols :
                c \in DOMAIN df[i] /\ ~IsNaN(df[i][c])
        /\ pc = "done" =>
            /\ outcome = "returned"
            /\ Len(results) = Cardinality(AnomalousScoredRows)

-----------------------------------------------------------------------------
(* Claims about the feature table                                          *)

Built == pc = "loop"

\* C8: the feature table has at most one row per (pumpId, bucketStart),
\* also when one pump has several telemetry readings in the same minute.
C8_OneRowPerPumpAndMinute ==
    Built =>
        \A i, j \in 1..Len(df) :
            (i # j) => <<df[i].SitePumpID, df[i].ts_minute>>
                       # <<df[j].SitePumpID, df[j].ts_minute>>

StdCols ==
    <<<<"Pressure", "Pressure_roll_std_5">>,
      <<"OutputCurrent", "OutputCurrent_roll_std_5">>,
      <<"FlowRate", "FlowRate_roll_std_5">>>>

\* the number of valid values of column c in the short trailing window
\* of row i of the table the rolling statistics are computed on
ShortWindowObservations(rows, i, c) ==
    Cardinality({j \in Window(rows, i, ShortWindow) : ~IsNaN(rows[j][c])})

\* C9: in the feature table the 5-bucket rolling standard deviation of
\* pressure, output current and flow rate is exactly 0, never undefined,
\* at every row whose trailing window holds fewer than 2 observations.
C9_ShortWindowStdIsZero ==
    Built =>
        \A i \in 1..Len(df) : \A k \in 1..Len(StdCols) :
            (ShortWindowObservations(pump_df, i, StdCols[k][1]) < 2)
                => df[i][StdCols[k][2]] = Zero

\* the first row of a pump follows a row of another pump whose window has
\* non-zero deviations of current and flow rate
C9_Witness ==
    /\ Built
    /\ \E i \in 2..Len(df) :
        /\ df[i].SitePumpID # df[i - 1].SitePumpID
        /\ df[i - 1].OutputCurrent_roll_std_5 # Zero
        /\ df[i - 1].FlowRate_roll_std_5 # Zero
        /\ df[i].OutputCurrent_roll_std_5 = Zero
        /\ df[i].FlowRate_roll_std_5 = Zero

-----------------------------------------------------------------------------
(* Claims about the aggregation of the readings of one bucket              *)

\* the one-minute bucket of an instant
BucketStart(t) == t - (t % TicksPerMinute)

\* the flow readings that land in the bucket of row i of the feature table
FlowInBucket(i) ==
    {j \in 1..Len(flow_in) :
        /\ FLOWMETER_TO_PUMP[flow_in[j].FlowMeterID] = df[i].SitePumpID
        /\ BucketStart(flow_in[j].LogStartTime) = df[i].ts_minute}

\* the readings of sensor sid that land in the bucket of row i
SensorInBucket(i, sid) ==
    {j \in 1..Len(sensor_in) :
        /\ sensor_in[j].SensorID = sid
        /\ site_map1[sid] = df[i].SitePumpID
        /\ BucketStart(sensor_in[j].LogDateTimeFixed) = df[i].ts_minute}

\* the total of column c over the readings of `rows` whose index is in S
RECURSIVE Total(_, _, _)
Total(rows, c, S) ==
    IF S = {} THEN Zero
    ELSE LET j == SetMax(S)
         IN  RAdd(Total(rows, c, S \ {j}), rows[j][c])

\* x is the mean of column c over the readings in S
IsMeanOf(x, rows, c, S) ==
    RMul(x, Num(Cardinality(S))) = Total(rows, c, S)

\* the last reading of S in timestamp order, ties broken by stream order
LastReading(S) ==
    CHOOSE j \in S : \A k \in S :
        \/ sensor_in[k].LogDateTimeFixed < sensor_in[j].LogDateTimeFixed
        \/ /\ sensor_in[k].LogDateTimeFixed = sensor_in[j].LogDateTimeFixed
           /\ k <= j

\* C15 (as claimed): when several readings of a stream land in the bucket
\* of a feature row, the row's flow rate is the mean of the flow readings
\* and its value of each sensor is the last reading of that sensor in
\* timestamp order.
C15_FlowMeanSensorLast ==
    Built =>
        \A i \in 1..Len(df) :
            /\ FlowInBucket(i) # {} =>
                IsMeanOf(df[i].FlowRate, flow_in, "FlowRate", FlowInBucket(i))
            /\ \A sid \in Sensors :
                SensorInBucket(i, sid) # {} =>
                    df[i][SENSOR_TO_FEATURE[sid]] =
                        sensor_in[LastReading(SensorInBucket(i, sid))].Value

\* C15 (amended): when several readings of a stream land in the bucket of
\* a feature row, the row's value is the mean of these readings, for the
\* flow stream and for each sensor of the sensor stream alike.
C15_FlowMeanSensorMean ==
    Built =>
        \A i \in 1..Len(df) :
            /\ FlowInBucket(i) # {} =>
                IsMeanOf(df[i].FlowRate, flow_in, "FlowRate", FlowInBucket(i))
            /\ \A sid \in Sensors :
                SensorInBucket(i, sid) # {} =>
                    IsMeanOf(df[i][SENSOR_TO_FEATURE[sid]], sensor_in, "Value",
                             SensorInBucket(i, sid))

\* two readings of one sensor with different values land in the bucket of
\* a feature row
C15_Witness ==
    /\ Built
    /\ \E i \in 1..Len(df) : \E sid \in Sensors :
        \E j, k \in SensorInBucket(i, sid) :
            sensor_in[j].Value # sensor_in[k].Value

-----------------------------------------------------------------------------
(* Claims about what a feature row depends on                              *)

\* the readings of the window that are mapped to pump p
OwnTelemetry(p) ==
    LET IsOwn(r) == r.SitePumpID = p
    IN  SelectSeq(pump_in, IsOwn)

OwnFlow(p) ==
    LET IsOwn(r) == FLOWMETER_TO_PUMP[r.FlowMeterID] = p
    IN  SelectSeq(flow_in, IsOwn)

OwnSensor(p) ==
    LET IsOwn(r) == site_map1[r.SensorID] = p
    IN  SelectSeq(sensor_in, IsOwn)

\* the feature vectors handed to the scaler of pump p, in row order
FeatureVectors(table, p) ==
    LET IsOwn(r) == r.SitePumpID = p
        rows == SelectSeq(table, IsOwn)
    IN  [i \in 1..Len(rows) |-> [c \in FEATURE_COLS |-> rows[i][c]]]

\* C13: the feature vectors of a pump do not depend on the readings of the
\* other pumps: they are the ones the pump gets from the window that holds
\* its own readings and nothing else (so any two windows that agree on the
\* readings of the pump give it the same vectors).
C13_PumpFeaturesIndependent ==
    Built =>
        \A p \in TelPumps :
            FeatureVectors(df, p) =
                FeatureVectors(build_features_21(OwnTelemetry(p), OwnSensor(p),
                                                 OwnFlow(p), FEATURE_COLS), p)

\* the rolling and deviation columns of the feature table
RollingCols ==
    {"pressure_dev", "current_dev", "pressure_dev_pct", "current_dev_pct",
     "Pressure_roll_mean_5", "Pressure_roll_std_5",
     "OutputCurrent_roll_mean_5", "OutputCurrent_roll_std_5",
     "FlowRate_roll_mean_5", "FlowRate_roll_std_5"}

\* the other readings the pump of telemetry row k could have sent at the
\* same instant
OtherReadings(k) ==
    {r \in TelemetryRows : /\ r.SitePumpID = pump_in[k].SitePumpID
                           /\ r.PumpLogDate = pump_in[k].PumpLogDate
                           /\ r # pump_in[k]}

\* C14: the rolling and deviation features of a row of the feature table
\* depend only on the current and earlier rows of its pump: replacing the
\* reading of a telemetry row by another reading leaves these features
\* unchanged in every row of the same pump with an earlier timestamp.
C14_RollingFeaturesAreCausal ==
    Built =>
        \A k \in 1..Len(pump_in) : \A r \in OtherReadings(k) :
            LET changed == build_features_21([pump_in EXCEPT ![k] = r],
                                             sensor_in, flow_in, FEATURE_COLS)
            IN  \A i \in 1..Len(df) :
                    (/\ df[i].SitePumpID = pump_in[k].SitePumpID
                     /\ df[i].PumpLogDate < pump_in[k].PumpLogDate)
                    => \A c \in RollingCols : changed[i][c] = df[i][c]

-----------------------------------------------------------------------------
(* Claims about repeated invocations                                       *)

\* C10: on the same readings and the same bundle, every invocation of
\* detect_anomalies ends the same way with the same list (same records,
\* order, severities and reasons) as the invocations before it.
C10_SameOutputOnEveryRun ==
    (pc = "done") =>
        \A k \in 1..Len(history) :
            history[k] = [outcome |-> outcome, results |-> results]

\* a second invocation has returned a list with records of two pumps
C10_Witness ==
    /\ Returned
    /\ run = 2
    /\ Len(history) = 1
    /\ Cardinality(RecordPumps) = 2

-----------------------------------------------------------------------------
(* Claims about the reason of a record                                     *)

\* x > n/d and x < n/d for a number x that is not missing (d > 0)
Exceeds(x, n, d) == ~IsNaN(x) /\ x[1] * d > n * x[2]
Under(x, n, d) == ~IsNaN(x) /\ x[1] * d < n * x[2]

\* x compared with (n/10) * y, for numbers that are not missing
TenthsBelow(x, n, y) == 10 * x[1] * y[2] < n * y[1] * x[2]
TenthsAbove(x, n, y) == 10 * x[1] * y[2] > n * y[1] * x[2]

\* the sentence of each condition on the row handed to build_reason, ""
\* when the condition does not fire
PressureSentence ==
    IF Exceeds(reason_row.pressure_dev_pct, 35, 100)
    THEN "Pressure significantly higher than typical baseline."
    ELSE IF Under(reason_row.pressure_dev_pct, -35, 100)
    THEN "Pressure significantly lower than typical baseline."
    ELSE ""

CurrentSentence ==
    IF Exceeds(reason_row.current_dev_pct, 35, 100)
    THEN "Current draw higher than expected for this pump."
    ELSE IF Under(reason_row.current_dev_pct, -35, 100)
    THEN "Current draw lower than expected for this pump."
    ELSE ""

FlowSentence ==
    LET fr == reason_row.FlowRate
        m == reason_row.FlowRate_roll_mean_5
    IN  IF IsNaN(fr) \/ IsNaN(m) \/ m[1] = 0 THEN ""
        ELSE IF TenthsBelow(fr, 7, m)
        THEN "Flow rate has dropped compared to recent history."
        ELSE IF TenthsAbove(fr, 13, m)
        THEN "Flow rate is spiking compared to recent history."
        ELSE ""

ConductivitySentence ==
    LET cond == reason_row["Conductivity_31489"]
    IN  IF reason_baseline = <<>> THEN ""
        ELSE IF IsNaN(cond) \/ IsNaN(reason_baseline[1]) THEN ""
        ELSE IF reason_baseline[1][1] <= 0 THEN ""
        ELSE IF TenthsAbove(cond, 13, reason_baseline[1])
        THEN "Conductivity higher than typical for this pump."
        ELSE ""

\* the sentences of the conditions that fire, in the fixed order
FiredSentences ==
    LET Fired(x) == x # ""
    IN  SelectSeq(<<PressureSentence, CurrentSentence, FlowSentence,
                    ConductivitySentence>>, Fired)

Mentions(prefix_sentences) ==
    \E i \in 1..Len(reason_ret) : reason_ret[i] \in prefix_sentences

\* C16: build_reason returns the sentences of all the conditions that fire,
\* one per condition at most, in the order pressure deviation, current
\* deviation, flow rate against the short window, conductivity against the
\* median, and the fallback sentence exactly when no condition fires; a
\* missing deviation, a zero short-window flow mean and a non-positive
\* conductivity median fire nothing.
C16_ReasonListsEveryFiredCondition ==
    (reason_ret # <<>>) =>
        /\ reason_ret = IF FiredSentences = <<>> THEN <<FallbackReason>>
                        ELSE FiredSentences
        /\ (reason_ret = <<FallbackReason>>) <=> (FiredSentences = <<>>)
        /\ IsNaN(reason_row.pressure_dev_pct) =>
            ~Mentions({"Pressure significantly higher than typical baseline.",
                       "Pressure significantly lower than typical baseline."})
        /\ IsNaN(reason_row.current_dev_pct) =>
            ~Mentions({"Current draw higher than expected for this pump.",
                       "Current draw lower than expected for this pump."})
        /\ reason_row.FlowRate_roll_mean_5 = Zero =>
            ~Mentions({"Flow rate has dropped compared to recent history.",
                       "Flow rate is spiking compared to recent history."})
        /\ (reason_baseline # <<>> /\ ~IsNaN(reason_baseline[1])
            /\ RLe(reason_baseline[1], Zero)) =>
            ~Mentions({"Conductivity higher than typical for this pump."})

\* all four conditions fire on one row and the reason lists the four
\* sentences
C16_Witness ==
    /\ Len(reason_ret) = 4
    /\ reason_ret[1] = "Pressure significantly lower than typical baseline."
    /\ reason_ret[4] = "Conductivity higher than typical for this pump."

-----------------------------------------------------------------------------
(* Claims about the earlier version of the module                          *)

LegacyReturned == legacy_pc = "done"

\* the row of the scored table that a record of the earlier version
\* corresponds to (the instants of a window are distinct)
LegacyRowOf(rec) ==
    CHOOSE k \in 1..Len(legacy_df) : legacy_df[k].PumpLogDate = rec.timestamp

\* C17: in the earlier version the rows labeled normal are kept in the
\* population of the severity quantiles (the severities are the ones of
\* the 0.10/0.25 quantiles over the scores of all rows) but are discarded
\* from the feed: no returned record corresponds to a row labeled normal.
C17_LegacyFeedHasNoNormalRow ==
    (LegacyReturned /\ legacy_records # <<>>) =>
        LET scores == [k \in 1..Len(legacy_df) |->
                            Num(legacy_df[k].model_out[2])]
            q10 == LinearQuantile(scores, 1, 10)
            q25 == LinearQuantile(scores, 1, 4)
        IN  \A i \in 1..Len(legacy_records) :
                /\ legacy_records[i].severity =
                        IF RLe(legacy_records[i].score, q10) THEN "HIGH"
                        ELSE IF RLe(legacy_records[i].score, q25) THEN "MEDIUM"
                        ELSE "LOW"
                /\ legacy_df[LegacyRowOf(legacy_records[i])].model_out[1] = -1

ExplanationOrder ==
    <<"Frequency", "OutputCurrent", "OutputVoltage", "Pressure">>

\* the sum of the squared distances of column c to m over the rows in S
RECURSIVE SquaredDeviations(_, _, _)
SquaredDeviations(c, m, S) ==
    IF S = {} THEN Zero
    ELSE LET j == SetMax(S)
             d == RSub(legacy_df[j][c], m)
         IN  RAdd(SquaredDeviations(c, m, S \ {j}), RMul(d, d))

\* the population statistics of the explanation features, in their order:
\* mean, and squared std with a zero or undefined std taken as 1
PopStats ==
    [k \in 1..Len(ExplanationOrder) |->
        LET c == ExplanationOrder[k]
            n == Len(legacy_df)
            m == RDiv(Total(legacy_df, c, 1..n), Num(n))
            ss == SquaredDeviations(c, m, 1..n)
        IN  [mean |-> m,
             degenerate |-> n < 2 \/ ss = Zero,
             std2 |-> IF n < 2 \/ ss = Zero THEN Num(1)
                      ELSE RDiv(ss, Num(n - 1))]]

\* the squared z-scores of the explanation features on a row
ZSquared(row, stats) ==
    [k \in 1..Len(ExplanationOrder) |->
        LET d == RSub(row[ExplanationOrder[k]], stats[k].mean)
        IN  RDiv(RMul(d, d), stats[k].std2)]

\* the first, in the fixed order, of the features of largest |z|
LargestDeviation(z2) ==
    CHOOSE k \in 1..Len(z2) :
        /\ \A j \in 1..Len(z2) : RLe(z2[j], z2[k])
        /\ \A j \in 1..(k - 1) : RLt(z2[j], z2[k])

HighTemplates ==
    <<"Frequency is significantly higher than typical values.",
      "Output current is unusually high compared to normal operation.",
      "Output voltage spikes above its normal range.",
      "Discharge pressure is higher than normal, suggesting possible blockage or restriction.">>

LowTemplates ==
    <<"Frequency dropped lower than usual or towards zero.",
      "Output current is unusually low, indicating possible pump stall or no-load.",
      "Output voltage is lower than typical operating levels.",
      "Discharge pressure is lower than normal, suggesting leak, cavitation, or no-flow condition.">>

\* C18: the reason of every record of the earlier version is the template
\* of the explanation feature with the largest |value - mean| / std over
\* the population (a zero or undefined std counting as 1.0), the first in
\* the order Frequency, OutputCurrent, OutputVoltage, Pressure among equal
\* ones; the template for "high" when the deviation is positive, for "low"
\* otherwise.
C18_ExplainsLargestDeviation ==
    (LegacyReturned /\ legacy_records # <<>>) =>
        \A stats \in {PopStats} : \A i \in 1..Len(legacy_records) :
            \A row \in {legacy_df[LegacyRowOf(legacy_records[i])]} :
                \A k \in {LargestDeviation(ZSquared(row, stats))} :
                    legacy_records[i].reason =
                        IF RLt(stats[k].mean, row[ExplanationOrder[k]])
                        THEN HighTemplates[k] ELSE LowTemplates[k]

\* a record explained by a feature that is not the first of the order,
\* whose deviation is tied with a later feature's, in a population where a
\* feature has a zero std
C18_Witness ==
    /\ LegacyReturned
    /\ Len(legacy_df) >= 2
    /\ \E stats \in {PopStats} :
        /\ \E c \in 1..Len(ExplanationOrder) : stats[c].degenerate
        /\ \E i \in 1..Len(legacy_records) :
            \E z2 \in {ZSquared(legacy_df[LegacyRowOf(legacy_records[i])],
                                stats)} :
                \E k \in {LargestDeviation(z2)} :
                    /\ k > 1
                    /\ \E j \in (k + 1)..Len(z2) : z2[j] = z2[k]
                    /\ legacy_records[i].reason = HighTemplates[k]

====
